---- MODULE Spec2Model ----
(***************************************************************************)
(* Model of src/src/components/backend_api.py: the validated task model,   *)
(* the recurrence calculator, the JSON persistence store with its read     *)
(* cache, and the request handlers that load, mutate and save the task     *)
(* collection.                                                             *)
(*                                                                         *)
(* Conventions.                                                            *)
(*  - An instant is an integer number of hours since 2024-01-01T00:00Z (a  *)
(*    Monday, so weekday() of day number d is d % 7).  An absent Optional  *)
(*    instant (None) is -1; a date string that fromisoformat rejects is -2.*)
(*    A datetime field holds the wall-clock reading of the value in its    *)
(*    own UTC offset, which is what date(), weekday(), timedelta and       *)
(*    relativedelta work on; tz is the UTC offset of due_date in hours (0  *)
(*    for "Z", "+00:00" and naive strings), so the instant that aware      *)
(*    comparisons use is due_date - tz.                                    *)
(*  - A string is a sequence of tokens: "a" (a printable character), " "   *)
(*    (whitespace), "CTL" (a control character below 32), and the markers  *)
(*    "<script", "</script>" with their escaped forms.                     *)
(*  - A task id is a pair: <<"ext", k>> is an id chosen by a client or     *)
(*    found in a document, <<"uuid", n>> a value of uuid4() (the least n   *)
(*    not in use stands for a value equal to no id in use), <<"none", 0>>  *)
(*    an absent id.  <<"ext", k>> is the string of the decimal digits of   *)
(*    k, and <<"num", k>> is the JSON number k.  Reminder ids, created_at and updated_at are not       *)
(*    tracked; no modelled decision reads them.                            *)
(*  - An absent Optional[Frequency] is the record NoFrequency; an absent   *)
(*    day_of_month is 0 and an absent days_of_week is <<>> (the code tests *)
(*    both by truthiness, lines 165 and 191).                              *)
(***************************************************************************)
EXTENDS Integers, Sequences, FiniteSets, TLC

VARIABLES
    doc,              \* the backing document TASKS_FILE
    cache_data,       \* task_cache["data"]
    cache_expires_at, \* task_cache["expires_at"]
    now,              \* time.time(), seconds since process start
    temp_files,       \* temporary files left in DATA_DIR
    requests,         \* how many requests have been handled
    resp,             \* the last request and what it observed and returned
    file_lock,        \* file_lock: the call that holds it, NoCall when free
    calls             \* the load_tasks and save_tasks calls in flight

vars == <<doc, cache_data, cache_expires_at, now, temp_files, requests, resp,
          file_lock, calls>>

----------------------------------------------------------------------------
(* Program constants and bounds *)

CACHE_EXPIRATION == 10

\* the number of messages import_tasks returns at most (errors[:10])
ErrorLimit == 10

MaxTime == 10

MaxRequests == 2

\* the largest limit and offset options of the filter
MaxLimit == 2

MaxOffset == 2

\* how many load_tasks and save_tasks calls are followed step by step
MaxCalls == 3

----------------------------------------------------------------------------
(* Calendar arithmetic of datetime / dateutil.relativedelta *)

IsLeap(y) == (y % 4 = 0 /\ y % 100 # 0) \/ y % 400 = 0

DaysInYear(y) == IF IsLeap(y) THEN 366 ELSE 365

DaysInMonth(y, m) ==
    IF m = 2 THEN (IF IsLeap(y) THEN 29 ELSE 28)
    ELSE IF m \in {4, 6, 9, 11} THEN 30 ELSE 31

RECURSIVE DaysBeforeYear(_)
DaysBeforeYear(y) ==
    IF y <= 2024 THEN 0 ELSE DaysBeforeYear(y - 1) + DaysInYear(y - 1)

RECURSIVE DaysBeforeMonth(_, _)
DaysBeforeMonth(y, m) ==
    IF m <= 1 THEN 0 ELSE DaysBeforeMonth(y, m - 1) + DaysInMonth(y, m - 1)

\* day number of the civil date y-m-d
FromCivil(y, m, d) == DaysBeforeYear(y) + DaysBeforeMonth(y, m) + (d - 1)

RECURSIVE YearOfDay(_, _)
YearOfDay(n, y) ==
    IF n < DaysInYear(y) THEN [year |-> y, rest |-> n]
    ELSE YearOfDay(n - DaysInYear(y), y + 1)

RECURSIVE MonthOfDay(_, _, _)
MonthOfDay(n, y, m) ==
    IF n < DaysInMonth(y, m) THEN [month |-> m, rest |-> n]
    ELSE MonthOfDay(n - DaysInMonth(y, m), y, m + 1)

CivilOfMonth(y, mo) == [year |-> y, month |-> mo.month, day |-> mo.rest + 1]

CivilOfYear(yr) == CivilOfMonth(yr.year, MonthOfDay(yr.rest, yr.year, 1))

\* civil date of day number n
ToCivil(n) == CivilOfYear(YearOfDay(n, 2024))

\* datetime.date() and the time of day of an instant
DateOf(t) == t \div 24

HourOf(t) == t % 24

Instant(y, m, d, h) == FromCivil(y, m, d) * 24 + h

\* datetime.weekday(): Monday = 0
Weekday(t) == DateOf(t) % 7

Min(a, b) == IF a < b THEN a ELSE b

\* relativedelta keeps the day unless the target month is shorter
ClampDay(y, m, d, h) == Instant(y, m, Min(d, DaysInMonth(y, m)), h)

\* the civil date c at hour h moved to month index k (months since January of c.year)
ShiftMonths(c, h, k) == ClampDay(c.year + (k \div 12), (k % 12) + 1, c.day, h)

\* current + relativedelta(months=n)
AddMonths(t, n) == ShiftMonths(ToCivil(DateOf(t)), HourOf(t), (ToCivil(DateOf(t)).month - 1) + n)

AddYearsCivil(c, h, n) == ClampDay(c.year + n, c.month, c.day, h)

\* current + relativedelta(years=n)
AddYears(t, n) == AddYearsCivil(ToCivil(DateOf(t)), HourOf(t), n)

ReplaceDayCivil(c, t, d) ==
    IF d >= 1 /\ d <= DaysInMonth(c.year, c.month)
    THEN [ok |-> TRUE, value |-> Instant(c.year, c.month, d, HourOf(t))]
    ELSE [ok |-> FALSE, value |-> t]

\* datetime.replace(day=d): [ok |-> FALSE] is the ValueError of a day that
\* the month does not have
ReplaceDay(t, d) == ReplaceDayCivil(ToCivil(DateOf(t)), t, d)

----------------------------------------------------------------------------
(* Frequency and the recurrence calculator *)

NoFrequency == [type |-> "none", interval |-> 1, days_of_week |-> <<>>, day_of_month |-> 0]

HasFrequency(f) == f.type # "none"

\* class Frequency: the field constraints
FrequencyValid(f) ==
    /\ f.type \in {"daily", "weekly", "monthly", "yearly"}
    /\ f.interval >= 1 /\ f.interval <= 365
    /\ (f.day_of_month = 0 \/ (f.day_of_month >= 1 /\ f.day_of_month <= 31))

SeqToSet(s) == {s[i] : i \in 1..Len(s)}

SetMin(S) == CHOOSE x \in S : \A y \in S : x <= y

\* a pick that always goes to the first target day of the next week
WeeklyPickNextWeek(current_weekday, target_days, later) ==
    (7 - current_weekday) + SetMin(target_days)

\* the loop over target_days = sorted(days_of_week): the first target day after
\* current_weekday, or else the first target day of the next week
WeeklyPick(current_weekday, target_days, later) ==
    IF later # {}
    THEN SetMin(later) - current_weekday
    ELSE (7 - current_weekday) + SetMin(target_days)

WeeklyDaysAhead(current_weekday, days_of_week) ==
    WeeklyPick(current_weekday, SeqToSet(days_of_week),
               {d \in SeqToSet(days_of_week) : d > current_weekday})

\* the except branch of the monthly case: the last day of next_date's month
LastDayOfMonth(next_date) ==
    ToCivil(DateOf(ReplaceDay(AddMonths(next_date, 1), 1).value - 24)).day

\* a fallback that keeps the day relativedelta gave
ReplaceOrKeep(next_date, r) ==
    IF r.ok THEN r.value ELSE next_date

ReplaceOrLast(next_date, r) ==
    IF r.ok THEN r.value ELSE ReplaceDay(next_date, LastDayOfMonth(next_date)).value

SetDayOfMonth(next_date, day_of_month) ==
    IF day_of_month # 0
    THEN ReplaceOrLast(next_date, ReplaceDay(next_date, day_of_month))
    ELSE next_date

\* the monthly branch
MonthlyNext(current_due, frequency) ==
    SetDayOfMonth(AddMonths(current_due, frequency.interval), frequency.day_of_month)

\* the final else raises ValueError; Frequency validation lets no other type in
calculate_next_due_date(current_due, frequency) ==
    IF frequency.type = "daily" THEN current_due + 24 * frequency.interval
    ELSE IF frequency.type = "weekly" THEN
        IF frequency.days_of_week # <<>>
        THEN current_due + 24 * WeeklyDaysAhead(Weekday(current_due), frequency.days_of_week)
        ELSE current_due + 24 * 7 * frequency.interval
    ELSE IF frequency.type = "monthly" THEN MonthlyNext(current_due, frequency)
    ELSE AddYears(current_due, frequency.interval)

----------------------------------------------------------------------------
(* Strings and the Task validators *)

RECURSIVE LStrip(_)
LStrip(s) == IF s # <<>> /\ Head(s) = " " THEN LStrip(Tail(s)) ELSE s

RECURSIVE RStrip(_)
RStrip(s) ==
    IF s # <<>> /\ s[Len(s)] = " " THEN RStrip(SubSeq(s, 1, Len(s) - 1)) ELSE s

\* str.strip()
Strip(s) == RStrip(LStrip(s))

\* .replace('<script', '&lt;script').replace('</script>', '&lt;/script&gt;')
EscapeToken(c) ==
    IF c = "<script" THEN "&lt;script"
    ELSE IF c = "</script>" THEN "&lt;/script&gt;"
    ELSE c

EscapeAll(s) == [i \in 1..Len(s) |-> EscapeToken(s[i])]

\* the characters with ord(char) >= 32 or in '\n\t'
DropControl(v) == SelectSeq(v, LAMBDA c : c # "CTL")

\* Task.sanitize_description, for a value that passed min_length (v is not empty)
sanitize_description(v) == Strip(EscapeAll(DropControl(v)))

OrGeneral(s) == IF s = <<>> THEN <<"general">> ELSE s

\* Task.sanitize_category: "a", "A", "general" and " " are made of allowed
\* characters
sanitize_category(v) ==
    OrGeneral(Strip(SelectSeq(v, LAMBDA c : c \in {"a", "A", "general", " "})))

\* Task.parse_datetime: every accepted ISO form denotes its instant; -2 is rejected
DatetimeValid(v) == v # -2

ReminderValid(r) == r.time_before >= 0

\* the field constraints of class Task, checked on the raw values: min_length
\* is a constraint of the field type and runs before the validator functions
TaskFieldsValid(item) ==
    /\ item.kind = "obj"
    /\ Len(item.description) >= 1
    /\ DatetimeValid(item.due_date) /\ item.due_date # -1
    /\ DatetimeValid(item.completed_at)
    /\ DatetimeValid(item.next_due_date)
    /\ (HasFrequency(item.frequency) => FrequencyValid(item.frequency))
    /\ \A i \in 1..Len(item.reminders) : ReminderValid(item.reminders[i])

NoId == <<"none", 0>>

\* the str field id: a string stays, a number becomes the string of its digits
StrId(id) == IF id[1] = "num" THEN <<"ext", id[2]>> ELSE id

\* Task(**item) for an item that validates: unknown fields are ignored, an
\* absent id gets the default_factory's uuid
Task(item, fresh) ==
    [id            |-> IF item.id = NoId THEN fresh ELSE StrId(item.id),
     description   |-> sanitize_description(item.description),
     category      |-> sanitize_category(item.category),
     due_date      |-> item.due_date,
     tz            |-> item.tz,
     completed     |-> item.completed,
     completed_at  |-> item.completed_at,
     frequency     |-> item.frequency,
     next_due_date |-> item.next_due_date,
     reminders     |-> item.reminders]

\* a serialization that leaves next_due_date out
serialize_task_without_next_due(t) ==
    [kind          |-> "obj",
     id            |-> t.id,
     description   |-> t.description,
     category      |-> t.category,
     due_date      |-> t.due_date,
     tz            |-> t.tz,
     completed     |-> t.completed,
     completed_at  |-> t.completed_at,
     frequency     |-> t.frequency,
     next_due_date |-> -1,
     reminders     |-> t.reminders,
     extra         |-> FALSE]

\* task.dict() with the datetime fields as isoformat() strings
serialize_task(t) ==
    [kind          |-> "obj",
     id            |-> t.id,
     description   |-> t.description,
     category      |-> t.category,
     due_date      |-> t.due_date,
     tz            |-> t.tz,
     completed     |-> t.completed,
     completed_at  |-> t.completed_at,
     frequency     |-> t.frequency,
     next_due_date |-> t.next_due_date,
     reminders     |-> t.reminders,
     extra         |-> FALSE]

IdsOf(s) == {s[i].id : i \in 1..Len(s)}

\* a value of uuid4(): an id equal to none in use
FreshId(used) ==
    <<"uuid", CHOOSE k \in 1..(Cardinality(used) + 1) :
                  /\ <<"uuid", k>> \notin used
                  /\ \A j \in 1..(k - 1) : <<"uuid", j>> \in used>>

----------------------------------------------------------------------------
(* The persistence store: load_tasks and save_tasks *)

MissingDoc == [kind |-> "missing", items |-> <<>>]

MalformedDoc == [kind |-> "malformed", items |-> <<>>]

ArrayDoc(items) == [kind |-> "array", items |-> items]

EmptyCache == [present |-> FALSE, tasks |-> <<>>]

\* the loop of load_tasks over the document's elements.  A dict that fails
\* validation is logged and skipped; for an element that is not a dict,
\* Task(**item) raises TypeError and the handler's item.get(...) raises
\* AttributeError, which leaves the loop ([ok |-> FALSE]).
RECURSIVE ParseItems(_, _, _)
ParseValid(rest, acc, used, t) == ParseItems(rest, Append(acc, t), used \cup {t.id})

ParseItems(items, acc, used) ==
    IF items = <<>> THEN [ok |-> TRUE, tasks |-> acc]
    ELSE IF Head(items).kind # "obj" THEN [ok |-> FALSE, tasks |-> <<>>]
    ELSE IF TaskFieldsValid(Head(items))
         THEN ParseValid(Tail(items), acc, used, Task(Head(items), FreshId(used)))
         ELSE ParseItems(Tail(items), acc, used)

\* the try block of load_tasks once the file is known to exist and to be read:
\* raised says that open() or json.load() raised
LoadParsed(cdata, cexp, t, raised, parsed) ==
    IF raised \/ ~parsed.ok
    THEN [tasks |-> <<>>, data |-> cdata, expires_at |-> cexp,
          read |-> TRUE, failed |-> TRUE, raised |-> raised, aliased |-> FALSE]
    ELSE [tasks |-> parsed.tasks,
          data |-> [present |-> TRUE, tasks |-> parsed.tasks],
          expires_at |-> t + CACHE_EXPIRATION,
          read |-> TRUE, failed |-> FALSE, raised |-> FALSE, aliased |-> TRUE]

\* the cache test of load_tasks: an empty list is falsy, like None
CacheHit(cdata, cexp, t) == cdata.present /\ cdata.tasks # <<>> /\ t < cexp

\* load_tasks at time t with the cache (cdata, cexp) and the document d;
\* ioerr is an I/O error of open() or read().  The result names the list the
\* caller gets (tasks), the cache afterwards, whether storage was touched
\* (read), whether the load ended in the outer except (failed), whether that
\* was because open() or json.load() raised (raised), and whether
\* the returned list is the very list object the cache holds (aliased).
load_tasks(d, cdata, cexp, t, ioerr) ==
    IF CacheHit(cdata, cexp, t)
    THEN [tasks |-> cdata.tasks, data |-> cdata, expires_at |-> cexp,
          read |-> FALSE, failed |-> FALSE, raised |-> FALSE, aliased |-> TRUE]
    ELSE IF d.kind = "missing"
    THEN [tasks |-> <<>>, data |-> cdata, expires_at |-> cexp,
          read |-> TRUE, failed |-> FALSE, raised |-> FALSE, aliased |-> FALSE]
    ELSE LoadParsed(cdata, cexp, t, ioerr \/ d.kind = "malformed",
                    ParseItems(d.items, <<>>, IdsOf(d.items)))

\* the steps of save_tasks at which an exception can be raised
SaveSteps == {"serialize", "tempfile", "write", "fsync", "rename"}

SaveOutcomes == SaveSteps \cup {"none"}

\* a save that writes the document in place: a failure from the write on
\* leaves a partial document
save_tasks_in_place(tasks, d, fail) ==
    IF fail = "none"
    THEN [ok |-> TRUE, step |-> "ok",
          doc |-> ArrayDoc([i \in 1..Len(tasks) |-> serialize_task(tasks[i])]),
          leaked |-> FALSE]
    ELSE [ok |-> FALSE, step |-> fail,
          doc |-> IF fail \in {"serialize", "tempfile"} THEN d ELSE MalformedDoc,
          leaked |-> FALSE]

\* save_tasks(tasks) on the document d; fail is "none" or the step that
\* raises.  The document changes at the rename alone.  temp_path is bound
\* after the with block, so a failure inside it (write, fsync) finds no
\* temp_path in locals() and leaves the temporary file (leaked).
save_tasks(tasks, d, fail) ==
    IF fail = "none"
    THEN [ok |-> TRUE, step |-> "ok",
          doc |-> ArrayDoc([i \in 1..Len(tasks) |-> serialize_task(tasks[i])]),
          leaked |-> FALSE]
    ELSE [ok |-> FALSE, step |-> fail, doc |-> d,
          leaked |-> fail \in {"write", "fsync"}]

----------------------------------------------------------------------------
(* load_tasks and save_tasks step by step.  A call is a coroutine that takes
   file_lock before it touches storage and gives it back when it returns;
   the steps of different calls may interleave anywhere.  The handlers
   below run whole calls, which leave file_lock free and no call in flight. *)

Calls == 1..MaxCalls

NoCall == 0

\* a call: what it is (kind), where it stands (pc), the collection a save was
\* given (tasks), the save's temporary file (temp: MissingDoc while there is
\* none, MalformedDoc while partly written), what a load read (read, did_read)
\* and what the last successful save had written by then (expected)
IdleCall ==
    [kind |-> "none", pc |-> "idle", tasks |-> <<>>, temp |-> [kind |-> "missing", items |-> <<>>],
     read |-> [kind |-> "missing", items |-> <<>>], did_read |-> FALSE,
     expected |-> [kind |-> "missing", items |-> <<>>]]

NoCalls == [c \in Calls |-> IdleCall]

\* a lock that anyone may take at any time
LockIgnored(lock) == TRUE

\* with file_lock: the lock can be taken when no call holds it
LockFree(lock) == lock = NoCall

----------------------------------------------------------------------------
(* Requests and what the handlers do to the store *)

ZeroSummary == [success_count |-> 0, skipped_count |-> 0, invalid_count |-> 0]

\* the record of a request whose load returned L; the handlers overwrite the
\* fields they decide.  save is "none" while save_tasks was not called, then
\* "ok" or the step at which it raised.
BaseResp(op, L) ==
    [op      |-> op,        status  |-> 200,       time   |-> now,
     loaded  |-> L.tasks,   read    |-> L.read,    failed |-> L.failed,
     raised  |-> L.raised,
     save    |-> "none",    leaked  |-> FALSE,
     result  |-> L.tasks,   task_id |-> NoId,      auto   |-> FALSE,
     upload  |-> <<>>,      summary |-> ZeroSummary,
     errors  |-> <<>>,
     docread |-> MissingDoc]

\* the cache once the handler has changed the list it got from load_tasks into
\* `tasks`: the handler mutates the list and the Task objects in place, and
\* load_tasks hands out the cached list itself, not a copy
CacheAfter(L, tasks) ==
    IF L.aliased THEN [present |-> TRUE, tasks |-> tasks] ELSE L.data

\* a handler that ends without calling save_tasks, answering R
EndWithoutSave(R, L, tasks) ==
    /\ requests' = requests + 1
    /\ doc' = doc
    /\ cache_data' = CacheAfter(L, tasks)
    /\ cache_expires_at' = L.expires_at
    /\ temp_files' = temp_files
    /\ resp' = R
    /\ UNCHANGED <<now, file_lock, calls>>

\* a handler whose save_tasks(tasks) returned S: a successful save clears the
\* cache, a failed one makes the handler answer 500
EndSaved(R, L, tasks, S) ==
    /\ requests' = requests + 1
    /\ doc' = S.doc
    /\ cache_data' = IF S.ok THEN EmptyCache ELSE CacheAfter(L, tasks)
    /\ cache_expires_at' = IF S.ok THEN 0 ELSE L.expires_at
    /\ temp_files' = IF S.leaked THEN temp_files + 1 ELSE temp_files
    /\ resp' = [R EXCEPT !.result = tasks,
                         !.save   = S.step,
                         !.leaked = S.leaked,
                         !.status = IF S.ok THEN 200 ELSE 500]
    /\ UNCHANGED <<now, file_lock, calls>>

\* ids no uuid4() value can equal
UsedIds(tasks) == IdsOf(doc.items) \cup IdsOf(cache_data.tasks) \cup IdsOf(tasks)

\* index of the first task with the id, 0 if there is none
IndexOf(tasks, task_id) ==
    IF \E i \in 1..Len(tasks) : tasks[i].id = task_id
    THEN CHOOSE i \in 1..Len(tasks) :
             /\ tasks[i].id = task_id
             /\ \A j \in 1..(i - 1) : tasks[j].id # task_id
    ELSE 0

\* GET /api/tasks without filters
get_tasks ==
    /\ requests < MaxRequests
    /\ \E ioerr \in BOOLEAN :
       \E L \in {load_tasks(doc, cache_data, cache_expires_at, now, ioerr)} :
           EndWithoutSave(BaseResp("get", L), L, L.tasks)

\* next_due_date of a task that has a frequency
WithNextDue(t) ==
    IF HasFrequency(t.frequency)
    THEN [t EXCEPT !.next_due_date = calculate_next_due_date(t.due_date, t.frequency)]
    ELSE t

\* the arguments of the Task(...) call in create_task
CreateItem(task_data) ==
    [kind |-> "obj", id |-> NoId,
     description |-> task_data.description, category |-> task_data.category,
     due_date |-> task_data.due_date, tz |-> task_data.tz,
     completed |-> FALSE, completed_at |-> -1,
     frequency |-> task_data.frequency, next_due_date |-> -1,
     reminders |-> task_data.reminders, extra |-> FALSE]

\* the Task of create_task, with its initial next_due_date
NewTask(task_data, fresh) == WithNextDue(Task(CreateItem(task_data), fresh))

\* POST /api/tasks
create_task(task_data) ==
    /\ requests < MaxRequests
    /\ \E ioerr \in BOOLEAN :
       \E L \in {load_tasks(doc, cache_data, cache_expires_at, now, ioerr)} :
       \E tasks \in {Append(L.tasks, NewTask(task_data, FreshId(UsedIds(L.tasks))))} :
       \E fail \in SaveOutcomes : \E S \in {save_tasks(tasks, doc, fail)} :
           EndSaved(BaseResp("create", L), L, tasks, S)

\* the field assignments of update_task: plain attribute assignments, which
\* run no validator; next_due_date is recomputed only under "frequency is not None"
SetDescription(t, u) ==
    IF u.description # <<>> THEN [t EXCEPT !.description = u.description] ELSE t

SetCategory(t, u) ==
    IF u.category # <<>> THEN [t EXCEPT !.category = u.category] ELSE t

SetDueDate(t, u) ==
    IF u.due_date # -1 THEN [t EXCEPT !.due_date = u.due_date, !.tz = u.tz] ELSE t

SetFrequency(t, u) ==
    IF HasFrequency(u.frequency)
    THEN [t EXCEPT !.frequency = u.frequency,
                   !.next_due_date = calculate_next_due_date(t.due_date, u.frequency)]
    ELSE t

SetReminders(t, u) ==
    IF u.reminders.given THEN [t EXCEPT !.reminders = u.reminders.value] ELSE t

ApplyUpdate(task, task_update) ==
    SetReminders(
        SetFrequency(
            SetDueDate(
                SetCategory(SetDescription(task, task_update), task_update),
                task_update),
            task_update),
        task_update)

\* PUT /api/tasks/{task_id}
update_task(task_id, task_update) ==
    /\ requests < MaxRequests
    /\ \E ioerr \in BOOLEAN :
       \E L \in {load_tasks(doc, cache_data, cache_expires_at, now, ioerr)} :
       \E i \in {IndexOf(L.tasks, task_id)} :
       \E R \in {[BaseResp("update", L) EXCEPT !.task_id = task_id]} :
           IF i = 0
           THEN EndWithoutSave([R EXCEPT !.status = 404], L, L.tasks)
           ELSE \E tasks \in {[L.tasks EXCEPT ![i] = ApplyUpdate(@, task_update)]} :
                \E fail \in SaveOutcomes : \E S \in {save_tasks(tasks, doc, fail)} :
                    EndSaved(R, L, tasks, S)

\* a copy that keeps the sent flags
CopyRemindersWithSent(reminders) ==
    [k \in 1..Len(reminders) |->
        [time_before |-> reminders[k].time_before,
         message     |-> reminders[k].message,
         sent        |-> reminders[k].sent]]

\* the reminders of the next occurrence: rebuilt from time_before and message
\* alone, so sent takes its default
CopyReminders(reminders) ==
    [k \in 1..Len(reminders) |->
        [time_before |-> reminders[k].time_before,
         message     |-> reminders[k].message,
         sent        |-> FALSE]]

\* the arguments of the Task(...) call in complete_task
RescheduleItem(task) ==
    [kind |-> "obj", id |-> NoId,
     description |-> task.description, category |-> task.category,
     due_date |-> calculate_next_due_date(task.due_date, task.frequency),
     tz |-> task.tz, completed |-> FALSE, completed_at |-> -1,
     frequency |-> task.frequency, next_due_date |-> -1,
     reminders |-> CopyReminders(task.reminders), extra |-> FALSE]

\* task.completed = True; task.completed_at = now
MarkCompleted(tasks, i, t) ==
    [tasks EXCEPT ![i].completed = TRUE, ![i].completed_at = t]

\* the new task of complete_task, with its own next_due_date
RescheduledTask(item, fresh) == WithNextDue(Task(item, fresh))

\* POST /api/tasks/{task_id}/complete.  In the rescheduling branch a
\* ValidationError of Task(...) comes after the task was marked, and the
\* handler answers 500 without saving.
complete_task(task_id, auto_reschedule) ==
    /\ requests < MaxRequests
    /\ \E ioerr \in BOOLEAN :
       \E L \in {load_tasks(doc, cache_data, cache_expires_at, now, ioerr)} :
       \E i \in {IndexOf(L.tasks, task_id)} :
       \E R \in {[BaseResp("complete", L) EXCEPT !.task_id = task_id,
                                                 !.auto = auto_reschedule]} :
           IF i = 0
           THEN EndWithoutSave([R EXCEPT !.status = 404], L, L.tasks)
           ELSE \E marked \in {MarkCompleted(L.tasks, i, now)} :
                IF auto_reschedule /\ HasFrequency(marked[i].frequency)
                THEN \E item \in {RescheduleItem(marked[i])} :
                     IF TaskFieldsValid(item)
                     THEN \E tasks \in {Append(marked,
                                          RescheduledTask(item, FreshId(UsedIds(marked))))} :
                          \E fail \in SaveOutcomes : \E S \in {save_tasks(tasks, doc, fail)} :
                              EndSaved(R, L, tasks, S)
                     ELSE EndWithoutSave([R EXCEPT !.status = 500, !.result = marked],
                                         L, marked)
                ELSE \E fail \in SaveOutcomes : \E S \in {save_tasks(marked, doc, fail)} :
                         EndSaved(R, L, marked, S)

\* import_tasks keeps a next_due_date the entry brings
ImportedTask(t) ==
    IF HasFrequency(t.frequency) /\ t.next_due_date = -1
    THEN [t EXCEPT !.next_due_date = calculate_next_due_date(t.due_date, t.frequency)]
    ELSE t

ImportAdd(acc, t) ==
    [acc EXCEPT !.tasks = Append(@, t),
                !.ids = @ \cup {t.id},
                !.used = @ \cup {t.id},
                !.success_count = @ + 1]

\* the except branch of the loop: the message names the entry's position
\* i + 1, which is one more than the entries counted so far
ImportInvalid(acc) ==
    [acc EXCEPT !.invalid_count = @ + 1,
                !.errors = Append(@, acc.success_count + acc.skipped_count
                                         + acc.invalid_count + 1)]

\* a pass that does not look for the id among existing_ids
import_item_without_dedup(acc, item) ==
    IF TaskFieldsValid(item)
    THEN ImportAdd(acc, ImportedTask(Task(item, FreshId(acc.used))))
    ELSE ImportInvalid(acc)

\* one pass of the loop of import_tasks: acc holds existing_tasks,
\* existing_ids and the three counters
import_item(acc, item) ==
    IF item.kind = "obj" /\ item.id # NoId /\ item.id \in acc.ids
    THEN [acc EXCEPT !.skipped_count = @ + 1]
    ELSE IF TaskFieldsValid(item)
    THEN ImportAdd(acc, ImportedTask(Task(item, FreshId(acc.used))))
    ELSE ImportInvalid(acc)

RECURSIVE import_loop(_, _)
import_loop(acc, import_data) ==
    IF import_data = <<>> THEN acc
    ELSE import_loop(import_item(acc, Head(import_data)), Tail(import_data))

ImportStart(L) ==
    [tasks |-> L.tasks, ids |-> IdsOf(L.tasks), used |-> UsedIds(L.tasks),
     success_count |-> 0, skipped_count |-> 0, invalid_count |-> 0,
     errors |-> <<>>]

ImportResp(import_data, L, acc) ==
    [BaseResp("import", L) EXCEPT
        !.upload = import_data,
        !.result = acc.tasks,
        !.summary = [success_count |-> acc.success_count,
                     skipped_count |-> acc.skipped_count,
                     invalid_count |-> acc.invalid_count],
        !.errors = SubSeq(acc.errors, 1, Min(ErrorLimit, Len(acc.errors)))]

\* an import that saves whatever it counted
import_tasks_always_save(import_data) ==
    /\ requests < MaxRequests
    /\ \E ioerr \in BOOLEAN :
       \E L \in {load_tasks(doc, cache_data, cache_expires_at, now, ioerr)} :
       \E acc \in {import_loop(ImportStart(L), import_data)} :
       \E fail \in SaveOutcomes : \E S \in {save_tasks(acc.tasks, doc, fail)} :
           EndSaved(ImportResp(import_data, L, acc), L, acc.tasks, S)

\* POST /api/tasks/import with an upload that parses to the array
\* import_data: save only if something was added
import_tasks(import_data) ==
    /\ requests < MaxRequests
    /\ \E ioerr \in BOOLEAN :
       \E L \in {load_tasks(doc, cache_data, cache_expires_at, now, ioerr)} :
       \E acc \in {import_loop(ImportStart(L), import_data)} :
       \E R \in {ImportResp(import_data, L, acc)} :
           IF acc.success_count > 0
           THEN \E fail \in SaveOutcomes : \E S \in {save_tasks(acc.tasks, doc, fail)} :
                    EndSaved(R, L, acc.tasks, S)
           ELSE EndWithoutSave(R, L, acc.tasks)

\* save_tasks(load_tasks()): the collection goes back to storage as it came
round_trip ==
    /\ requests < MaxRequests
    /\ \E ioerr \in BOOLEAN :
       \E L \in {load_tasks(doc, cache_data, cache_expires_at, now, ioerr)} :
       \E fail \in SaveOutcomes : \E S \in {save_tasks(L.tasks, doc, fail)} :
           EndSaved([BaseResp("round_trip", L) EXCEPT !.docread = doc], L, L.tasks, S)

\* the clock moves on
Tick(d) ==
    /\ now + d <= MaxTime
    /\ now' = now + d
    /\ UNCHANGED <<doc, cache_data, cache_expires_at, temp_files, requests, resp,
                   file_lock, calls>>

----------------------------------------------------------------------------
(* The query functions: filter_tasks and the announcement summary.  clock is
   datetime.now(timezone.utc), an instant in hours. *)

\* the instant of an aware due_date
DueInstant(t) == t.due_date - t.tz

\* t.due_date.date(): the date of the wall-clock reading
DueDay(t) == DateOf(t.due_date)

\* str.lower() on the tokens
Lower(s) == [i \in 1..Len(s) |-> IF s[i] = "A" THEN "a" ELSE s[i]]

\* an absent category option (None)
NoCategory == [given |-> FALSE, value |-> <<>>]

ByDueDate(filtered, due_date, today) ==
    IF due_date = "today" THEN SelectSeq(filtered, LAMBDA t : DueDay(t) = today)
    ELSE IF due_date = "tomorrow"
    THEN SelectSeq(filtered, LAMBDA t : DueDay(t) = today + 1)
    ELSE filtered

\* a status filter whose overdue test compares dates
ByStatusByDate(filtered, status, clock) ==
    IF status = "completed" THEN SelectSeq(filtered, LAMBDA t : t.completed)
    ELSE IF status \in {"due", "overdue"}
    THEN SelectSeq(filtered, LAMBDA t : ~t.completed /\ DueDay(t) <= DateOf(clock))
    ELSE filtered

ByStatus(filtered, status, clock) ==
    IF status = "due"
    THEN SelectSeq(filtered, LAMBDA t : ~t.completed /\ DueDay(t) <= DateOf(clock))
    ELSE IF status = "overdue"
    THEN SelectSeq(filtered, LAMBDA t : ~t.completed /\ DueInstant(t) < clock)
    ELSE IF status = "completed" THEN SelectSeq(filtered, LAMBDA t : t.completed)
    ELSE filtered

\* `if category:` is false for None and for the empty string
ByCategory(filtered, category) ==
    IF category.given /\ category.value # <<>>
    THEN SelectSeq(filtered, LAMBDA t : Lower(t.category) = Lower(category.value))
    ELSE filtered

\* filtered[offset:] under `if offset:`
DropOffset(filtered, offset) ==
    IF offset # 0 THEN SubSeq(filtered, offset + 1, Len(filtered)) ELSE filtered

\* filtered[:limit] under `if limit:`; an absent limit (None) is 0
TakeLimit(filtered, limit) ==
    IF limit # 0 THEN SubSeq(filtered, 1, Min(limit, Len(filtered))) ELSE filtered

filter_tasks(tasks, due_date, status, category, limit, offset, clock) ==
    TakeLimit(
        DropOffset(
            ByCategory(
                ByStatus(ByDueDate(tasks, due_date, DateOf(clock)), status, clock),
                category),
            offset),
        limit)

\* list.sort(key=lambda x: x.due_date): a stable sort by the due instant
RECURSIVE InsertByDue(_, _)
InsertByDue(sorted, t) ==
    IF sorted = <<>> THEN <<t>>
    ELSE IF DueInstant(sorted[Len(sorted)]) <= DueInstant(t) THEN Append(sorted, t)
    ELSE Append(InsertByDue(SubSeq(sorted, 1, Len(sorted) - 1), t), sorted[Len(sorted)])

RECURSIVE SortByDue(_)
SortByDue(tasks) ==
    IF tasks = <<>> THEN <<>>
    ELSE InsertByDue(SortByDue(SubSeq(tasks, 1, Len(tasks) - 1)), tasks[Len(tasks)])

\* the three lists of get_announcement_summary
announcement_summary(tasks, clock) ==
    [today_uncompleted |->
         SortByDue(SelectSeq(tasks, LAMBDA t : ~t.completed /\ DueDay(t) = DateOf(clock))),
     tomorrow_tasks |->
         SortByDue(SelectSeq(tasks, LAMBDA t : ~t.completed /\ DueDay(t) = DateOf(clock) + 1)),
     today_overdue |->
         SortByDue(SelectSeq(tasks, LAMBDA t : /\ ~t.completed
                                               /\ DueInstant(t) < clock
                                               /\ DueDay(t) < DateOf(clock)))]

\* A sentence of an announcement: which sentence it is (kind), the number it
\* states (count), its unit noun with or without "s" (noun) and, for a
\* "Task i: ..." sentence, the description it quotes.
Sentence(kind, count, noun, description) ==
    [kind |-> kind, count |-> count, noun |-> noun, description |-> description]

\* a unit noun that gets its "s" from one on
PluralFromOne(count) == IF count >= 1 THEN "tasks" ELSE "task"

\* task{'s' if count > 1 else ''}
Plural(count) == IF count > 1 THEN "tasks" ELSE "task"

\* for i, task in enumerate(list[:3]): "Task {i+1}: {task.description}"
FirstDescriptions(list) ==
    [i \in 1..Min(3, Len(list)) |-> Sentence("item", i, "Task", list[i].description)]

\* "And {remaining} more task(s)." when the list has more than three tasks
AndMore(list) ==
    IF Len(list) > 3
    THEN <<Sentence("more", Len(list) - 3, Plural(Len(list) - 3), <<>>)>>
    ELSE <<>>

\* the sentences about a non-empty list: the count, the first descriptions
\* and what remains
ListSentences(kind, list) ==
    <<Sentence(kind, Len(list), Plural(Len(list)), <<>>)>>
        \o FirstDescriptions(list) \o AndMore(list)

morning_parts(summary) ==
    (IF summary.today_overdue # <<>>
     THEN <<Sentence("overdue", Len(summary.today_overdue),
                     Plural(Len(summary.today_overdue)), <<>>)>>
     ELSE <<>>)
    \o (IF summary.today_uncompleted # <<>>
        THEN ListSentences("due_today", summary.today_uncompleted)
        ELSE <<>>)
    \o (IF summary.today_uncompleted = <<>> /\ summary.today_overdue = <<>>
        THEN <<Sentence("great_job", 0, "tasks", <<>>)>>
        ELSE <<>>)

evening_parts(summary) ==
    IF summary.tomorrow_tasks # <<>>
    THEN ListSentences("due_tomorrow", summary.tomorrow_tasks)
    ELSE <<Sentence("enjoy_evening", 0, "tasks", <<>>)>>

\* the sentences " ".join puts together, in order
generate_announcement_text(summary) ==
    [morning |-> morning_parts(summary), evening |-> evening_parts(summary)]

----------------------------------------------------------------------------
(* The inputs the model draws from *)

\* 2024-01-31T10:00Z and 2024-03-15T10:00Z
DueA == Instant(2024, 1, 31, 10)

DueB == Instant(2024, 3, 15, 10)

Daily == [type |-> "daily", interval |-> 1, days_of_week |-> <<>>, day_of_month |-> 0]

Monthly31 == [type |-> "monthly", interval |-> 1, days_of_week |-> <<>>, day_of_month |-> 31]

SentReminder == [time_before |-> 15, message |-> "m", sent |-> TRUE]

FreshReminder == [time_before |-> 5, message |-> "", sent |-> FALSE]

\* document and upload elements
ItemA ==
    [kind |-> "obj", id |-> <<"ext", 1>>, description |-> <<"a">>,
     category |-> <<"general">>, due_date |-> DueA, tz |-> 0, completed |-> FALSE,
     completed_at |-> -1, frequency |-> NoFrequency, next_due_date |-> -1,
     reminders |-> <<>>, extra |-> FALSE]

\* a recurring task with a reminder that was sent
ItemR ==
    [ItemA EXCEPT !.id = <<"ext", 2>>, !.frequency = Daily,
                  !.next_due_date = calculate_next_due_date(DueA, Daily),
                  !.reminders = <<SentReminder>>]

\* a valid record that carries a field Task does not know
ItemX == [ItemA EXCEPT !.extra = TRUE]

\* an object whose due_date does not parse
ItemBad == [ItemA EXCEPT !.id = <<"ext", 2>>, !.due_date = -2]

\* an array element that is not an object (a number, a string, null)
NonObj == [ItemA EXCEPT !.kind = "nonobj", !.id = NoId]

\* upload elements: a new recurring task without next_due_date, a new plain
\* task, and a malformed object without id
ItemNew == [ItemR EXCEPT !.id = <<"ext", 3>>, !.next_due_date = -1]

ItemNew2 == [ItemA EXCEPT !.id = <<"ext", 4>>]

ItemBadNoId == [ItemBad EXCEPT !.id = NoId]

\* an upload element whose id is the number 1, not the string "1"
ItemNum == [ItemA EXCEPT !.id = <<"num", 1>>]

InitDocs ==
    {MissingDoc, MalformedDoc, ArrayDoc(<<>>), ArrayDoc(<<ItemA, ItemR>>),
     ArrayDoc(<<ItemA, NonObj>>), ArrayDoc(<<ItemBad, ItemX>>)}

\* TaskCreate payloads (each passes the TaskCreate constraints)
PlainCreate ==
    [description |-> <<"a">>, category |-> <<"general">>, due_date |-> DueA,
     tz |-> 0, frequency |-> NoFrequency, reminders |-> <<>>]

RecurringCreate == [PlainCreate EXCEPT !.frequency = Daily, !.reminders = <<SentReminder>>]

BlankCreate == [PlainCreate EXCEPT !.description = <<" ">>]

CreateInputs == {RecurringCreate, BlankCreate}

\* TaskUpdate payloads: an absent field is <<>>, -1, NoFrequency, given = FALSE
NoUpdate ==
    [description |-> <<>>, category |-> <<>>, due_date |-> -1, tz |-> 0,
     frequency |-> NoFrequency, reminders |-> [given |-> FALSE, value |-> <<>>]]

DueOnly == [NoUpdate EXCEPT !.due_date = DueB]

\* every field but due_date
AllButDue ==
    [NoUpdate EXCEPT !.description = <<"<script", "a">>,
                     !.category = <<"a">>,
                     !.frequency = Monthly31,
                     !.reminders = [given |-> TRUE, value |-> <<FreshReminder>>]]

UpdateInputs == {DueOnly, AllButDue}

\* the ids a request can name: those in the store and one that is nowhere
TargetIds == (IdsOf(doc.items) \cup IdsOf(cache_data.tasks) \cup {<<"ext", 0>>}) \ {NoId}

\* uploads: one that repeats an id of its own and holds a non-object, one of
\* five entries, and one whose id is a number
Uploads ==
    {<<ItemNew, NonObj, ItemNew>>, <<ItemA, ItemR, ItemNew, ItemBadNoId, ItemNew2>>,
     <<ItemNum>>}

\* an upload with more invalid entries than messages are returned
ManyInvalid == [k \in 1..(ErrorLimit + 1) |-> NonObj]

----------------------------------------------------------------------------
(* The specification *)

InitResp ==
    [op      |-> "init",    status  |-> 200,       time   |-> 0,
     loaded  |-> <<>>,      read    |-> FALSE,     failed |-> FALSE,
     raised  |-> FALSE,
     save    |-> "none",    leaked  |-> FALSE,
     result  |-> <<>>,      task_id |-> NoId,      auto   |-> FALSE,
     upload  |-> <<>>,      summary |-> ZeroSummary,
     errors  |-> <<>>,
     docread |-> MissingDoc]

Init ==
    /\ doc \in InitDocs
    /\ cache_data = EmptyCache
    /\ cache_expires_at = 0
    /\ now = 0
    /\ temp_files = 0
    /\ requests = 0
    /\ resp = InitResp
    /\ file_lock = NoCall
    /\ calls = NoCalls

Next ==
    \/ get_tasks
    \/ \E task_data \in CreateInputs : create_task(task_data)
    \/ \E task_id \in TargetIds, task_update \in UpdateInputs :
           update_task(task_id, task_update)
    \/ \E task_id \in TargetIds, auto_reschedule \in BOOLEAN :
           complete_task(task_id, auto_reschedule)
    \/ \E import_data \in Uploads \cup {ManyInvalid} : import_tasks(import_data)
    \/ Tick(CACHE_EXPIRATION)

Spec == Init /\ [][Next]_vars

\* the start of the day the queries are made on: 2024-02-15T00:00Z
Today == Instant(2024, 2, 15, 0)

Hours == 0..23

\* a task of a loaded collection
QueryTask(k, due_date, tz, completed, category) ==
    [id |-> <<"ext", k>>, description |-> <<"a">>, category |-> category,
     due_date |-> due_date, tz |-> tz, completed |-> completed,
     completed_at |-> IF completed THEN due_date ELSE -1,
     frequency |-> NoFrequency, next_due_date |-> -1, reminders |-> <<>>]

\* an incomplete task due today at hour h, an incomplete task due yesterday
\* and a completed task due today
ThreeTasks(h) ==
    <<QueryTask(1, Today + h, 0, FALSE, <<"general">>),
      QueryTask(2, Today - 14, 0, FALSE, <<"general">>),
      QueryTask(3, Today + 10, 0, TRUE, <<"general">>)>>

\* tasks of several days, categories and UTC offsets, not in due order; the
\* first is due 2024-02-14T23:00-05:00, which is 04:00Z today
MixedTasks ==
    <<QueryTask(1, Today - 1, -5, FALSE, <<"A">>),
      QueryTask(2, Today + 33, 0, FALSE, <<"a">>),
      QueryTask(3, Today + 12, 0, FALSE, <<"general">>),
      QueryTask(4, Today + 8, 0, FALSE, <<"a">>),
      QueryTask(5, Today + 58, 0, FALSE, <<"general">>),
      QueryTask(6, Today - 14, 0, TRUE, <<"a">>),
      QueryTask(7, Today - 30, 0, FALSE, <<"general">>)>>

\* n incomplete tasks due today, the later ones first in the collection and
\* each with its own description, then m incomplete tasks of earlier days
Words == <<"a", "b", "c", "d", "e", "f", "g">>

AnnouncedTask(k, due_date) ==
    [QueryTask(k, due_date, 0, FALSE, <<"general">>) EXCEPT !.description = <<Words[k]>>]

AnnouncedTasks(n, m) ==
    [k \in 1..(n + m) |->
        IF k <= n THEN AnnouncedTask(k, Today + 24 - 2 * k)
        ELSE AnnouncedTask(k, Today - 24 * k)]

SummaryInputs ==
    {MixedTasks} \cup {ThreeTasks(h) : h \in Hours}
        \cup {AnnouncedTasks(n, m) : n \in 0..5, m \in 0..2}

CategoryOptions ==
    {NoCategory, [given |-> TRUE, value |-> <<>>], [given |-> TRUE, value |-> <<"a">>],
     [given |-> TRUE, value |-> <<"A">>]}

FilterQuery(tasks, due_date, status, category, limit, offset, clock) ==
    [tasks |-> tasks, due_date |-> due_date, status |-> status, category |-> category,
     limit |-> limit, offset |-> offset, clock |-> clock]

\* the three filters over the three tasks, at every hour of the day, and
\* every combination of options over the mixed collection
FilterQueries ==
    {FilterQuery(ThreeTasks(h), o[1], o[2], NoCategory, 0, 0, Today + c) :
         h \in Hours, c \in Hours,
         o \in {<<"none", "overdue">>, <<"none", "completed">>, <<"today", "none">>}}
    \cup
    {FilterQuery(MixedTasks, d, st, cat, l, o, Today + c) :
         d \in {"none", "today", "tomorrow"},
         st \in {"none", "due", "overdue", "completed"},
         cat \in CategoryOptions, l \in 0..MaxLimit, o \in 0..MaxOffset,
         c \in Hours}

\* filter_tasks applied to a query; each behaviour makes one call
filter_call ==
    \E q \in FilterQueries :
        /\ resp.op = "init"
        /\ resp' = [op |-> "filter", query |-> q,
                    result |-> filter_tasks(q.tasks, q.due_date, q.status, q.category,
                                            q.limit, q.offset, q.clock)]
        /\ UNCHANGED <<doc, cache_data, cache_expires_at, now, temp_files, requests,
                       file_lock, calls>>

\* the lists of the announcement summary for a collection and a clock
summary_call ==
    \E tasks \in SummaryInputs, c \in Hours :
        /\ resp.op = "init"
        /\ resp' = [op |-> "summary", tasks |-> tasks, clock |-> Today + c,
                    summary |-> announcement_summary(tasks, Today + c),
                    text |-> generate_announcement_text(
                                 announcement_summary(tasks, Today + c))]
        /\ UNCHANGED <<doc, cache_data, cache_expires_at, now, temp_files, requests,
                       file_lock, calls>>

InitQuery ==
    /\ doc = MissingDoc
    /\ cache_data = EmptyCache
    /\ cache_expires_at = 0
    /\ now = 0
    /\ temp_files = 0
    /\ requests = 0
    /\ resp = InitResp
    /\ file_lock = NoCall
    /\ calls = NoCalls

NextQuery == filter_call \/ summary_call

SpecQuery == InitQuery /\ [][NextQuery]_vars

\* due dates the recurrences start from: a whole week, ends of months, a leap
\* day and the end of a year
CurrentDues ==
    {Instant(2024, 1, d, 9) : d \in 1..7}
        \cup {Instant(2024, 1, 31, 9), Instant(2024, 2, 29, 0), Instant(2024, 3, 31, 23),
              Instant(2024, 11, 15, 9), Instant(2025, 1, 30, 9)}

RECURSIVE SortedSeq(_)
SortedSeq(S) == IF S = {} THEN <<>> ELSE <<SetMin(S)>> \o SortedSeq(S \ {SetMin(S)})

\* days_of_week lists: every non-empty set of weekday indices in ascending
\* order, and lists that are unsorted or repeat a day
WeekdayLists ==
    {SortedSeq(S) : S \in (SUBSET (0..6)) \ {{}}}
        \cup {<<4, 2>>, <<2, 2, 4>>, <<6, 0>>, <<5, 3, 1>>}

\* days_of_week is a List[int] without bounds: lists with numbers that are no
\* weekday index are accepted as well
UnboundedLists == {<<-8>>, <<-7>>, <<9>>, <<2, 11>>}

Intervals == {1, 2, 11, 12, 13, 25}

Frequencies ==
    {[type |-> "weekly", interval |-> n, days_of_week |-> w, day_of_month |-> 0] :
         n \in {1, 2, 3}, w \in WeekdayLists \cup UnboundedLists \cup {<<>>}}
    \cup {[type |-> "monthly", interval |-> n, days_of_week |-> <<>>, day_of_month |-> d] :
              n \in Intervals, d \in 0..31}
    \cup {[type |-> ty, interval |-> n, days_of_week |-> <<>>, day_of_month |-> 0] :
              ty \in {"daily", "yearly"}, n \in {1, 2}}

\* calculate_next_due_date applied to a due date and a frequency; each
\* behaviour makes one call
next_due_call ==
    \E current_due \in CurrentDues, frequency \in Frequencies :
        /\ resp.op = "init"
        /\ resp' = [op |-> "next_due", current |-> current_due, frequency |-> frequency,
                    result |-> calculate_next_due_date(current_due, frequency)]
        /\ UNCHANGED <<doc, cache_data, cache_expires_at, now, temp_files, requests,
                       file_lock, calls>>

NextRecurrence == next_due_call

SpecRecurrence == InitQuery /\ [][NextRecurrence]_vars

\* the collections the followed saves are given
SavedCollections == {<<>>, <<Task(ItemA, NoId)>>, <<Task(ItemX, NoId), Task(ItemA, NoId)>>}

\* calls start in the order of their numbers
Idle(c) == calls[c].pc = "idle" /\ \A d \in 1..(c - 1) : calls[d].pc # "idle"

At(c, kind, pc) == calls[c].kind = kind /\ calls[c].pc = pc

Storage == <<doc, cache_data, cache_expires_at, now, temp_files, requests, resp>>

\* load_tasks is called: the cache test, before the lock
load_begin(c) ==
    /\ Idle(c)
    /\ calls' = [calls EXCEPT ![c].kind = "load",
                              ![c].pc = IF CacheHit(cache_data, cache_expires_at, now)
                                        THEN "done" ELSE "waiting"]
    /\ UNCHANGED <<Storage, file_lock>>

\* save_tasks(tasks) is called
save_begin(c, tasks) ==
    /\ Idle(c)
    /\ calls' = [calls EXCEPT ![c].kind = "save", ![c].pc = "waiting", ![c].tasks = tasks]
    /\ UNCHANGED <<Storage, file_lock>>

\* with file_lock:
acquire(c) ==
    /\ calls[c].pc = "waiting"
    /\ LockFree(file_lock)
    /\ file_lock' = c
    /\ calls' = [calls EXCEPT ![c].pc = "locked"]
    /\ UNCHANGED Storage

\* exists(), open() and json.load(): the document is read, or an error raised
load_read(c) ==
    /\ At(c, "load", "locked")
    /\ \E ioerr \in BOOLEAN :
           calls' = IF ioerr
                    THEN [calls EXCEPT ![c].pc = "failed"]
                    ELSE [calls EXCEPT ![c].pc = "read", ![c].read = doc,
                                       ![c].did_read = TRUE,
                                       ![c].expected = resp.committed]
    /\ UNCHANGED <<Storage, file_lock>>

\* the validation loop and the cache update
load_parse(c) ==
    /\ At(c, "load", "read")
    /\ \E L \in {IF calls[c].read.kind = "missing"
                  THEN [data |-> cache_data, expires_at |-> cache_expires_at]
                  ELSE LoadParsed(cache_data, cache_expires_at, now,
                                  calls[c].read.kind = "malformed",
                                  ParseItems(calls[c].read.items, <<>>,
                                             IdsOf(calls[c].read.items)))} :
           /\ cache_data' = L.data
           /\ cache_expires_at' = L.expires_at
    /\ calls' = [calls EXCEPT ![c].pc = "parsed"]
    /\ UNCHANGED <<doc, now, temp_files, requests, resp, file_lock>>

\* task.dict() and isoformat() of every task
save_serialize(c) ==
    /\ At(c, "save", "locked")
    /\ \E fail \in BOOLEAN :
           calls' = [calls EXCEPT ![c].pc = IF fail THEN "failed" ELSE "serialized"]
    /\ UNCHANGED <<Storage, file_lock>>

\* tempfile.NamedTemporaryFile(delete=False): an empty temporary file
save_tempfile(c) ==
    /\ At(c, "save", "serialized")
    /\ \E fail \in BOOLEAN :
           calls' = IF fail
                    THEN [calls EXCEPT ![c].pc = "failed"]
                    ELSE [calls EXCEPT ![c].pc = "temp_open", ![c].temp = MalformedDoc]
    /\ UNCHANGED <<Storage, file_lock>>

\* json.dump, flush and fsync into the temporary file; a failure leaves it
save_write(c) ==
    /\ At(c, "save", "temp_open")
    /\ \E fail \in BOOLEAN :
           /\ calls' = IF fail
                       THEN [calls EXCEPT ![c].pc = "failed"]
                       ELSE [calls EXCEPT ![c].pc = "written",
                                          ![c].temp = save_tasks(calls[c].tasks, doc, "none").doc]
           /\ temp_files' = IF fail THEN temp_files + 1 ELSE temp_files
    /\ UNCHANGED <<doc, cache_data, cache_expires_at, now, requests, resp, file_lock>>

\* os.rename(temp_path, TASKS_FILE): the document becomes what the temporary
\* file holds; a failure unlinks the temporary file
save_rename(c) ==
    /\ At(c, "save", "written")
    /\ \E fail \in BOOLEAN :
           /\ calls' = [calls EXCEPT ![c].pc = IF fail THEN "failed" ELSE "renamed",
                                     ![c].temp = MissingDoc]
           /\ doc' = IF fail THEN doc ELSE calls[c].temp
           /\ resp' = IF fail THEN resp
                      ELSE [resp EXCEPT !.committed =
                                ArrayDoc([i \in 1..Len(calls[c].tasks) |->
                                             serialize_task(calls[c].tasks[i])])]
    /\ UNCHANGED <<cache_data, cache_expires_at, now, temp_files, requests, file_lock>>

\* task_cache is cleared
save_invalidate(c) ==
    /\ At(c, "save", "renamed")
    /\ cache_data' = EmptyCache
    /\ cache_expires_at' = 0
    /\ calls' = [calls EXCEPT ![c].pc = "saved"]
    /\ UNCHANGED <<doc, now, temp_files, requests, resp, file_lock>>

\* the end of the with block, on return and on the except path alike
release(c) ==
    /\ calls[c].pc \in {"parsed", "saved", "failed"}
    /\ file_lock' = NoCall
    /\ calls' = [calls EXCEPT ![c].pc = "done"]
    /\ UNCHANGED Storage

InitLock ==
    /\ doc \in {MissingDoc, ArrayDoc(<<ItemA, ItemR>>)}
    /\ cache_data = EmptyCache
    /\ cache_expires_at = 0
    /\ now = 0
    /\ temp_files = 0
    /\ requests = 0
    /\ resp = [op |-> "storage", committed |-> doc]
    /\ file_lock = NoCall
    /\ calls = NoCalls

NextLock ==
    \E c \in Calls :
        \/ load_begin(c)
        \/ \E tasks \in SavedCollections : save_begin(c, tasks)
        \/ acquire(c)
        \/ load_read(c)
        \/ load_parse(c)
        \/ save_serialize(c)
        \/ save_tempfile(c)
        \/ save_write(c)
        \/ save_rename(c)
        \/ save_invalidate(c)
        \/ release(c)

SpecLock == InitLock /\ [][NextLock]_vars

\* the requests, and save_tasks(load_tasks()) between them
NextRoundTrip == Next \/ round_trip

SpecRoundTrip == Init /\ [][NextRoundTrip]_vars

----------------------------------------------------------------------------
(* Properties.  resp describes the last request: what its load returned
   (loaded), whether that load touched storage (read), the collection the
   handler ended with (result) and the outcome of its save (save). *)

\* the tasks the document d holds: its records that validate, in order
DocTasks(d) == ParseItems(d.items, <<>>, IdsOf(d.items)).tasks

\* the records of items that pass Task validation, in document order
ValidTasks(items) ==
    [i \in 1..Len(SelectSeq(items, TaskFieldsValid)) |->
        Task(SelectSeq(items, TaskFieldsValid)[i], NoId)]

\* C1: of two consecutive loads less than CACHE_EXPIRATION apart with no save
\* between them (the load of a GET and the load of the next request), the
\* second returns the contents the first returned and does not read storage,
\* whatever the first returned (the empty collection, a missing document).
C1_SecondLoadFromCache ==
    [][(/\ requests' = requests + 1
        /\ resp.op = "get"
        /\ ~resp.raised
        /\ resp'.time - resp.time < CACHE_EXPIRATION)
       => (resp'.loaded = resp.loaded /\ ~resp'.read)]_vars

\* C2: after a request whose save failed, the next load returns exactly the
\* tasks the backing document holds.
C2_FailedSaveNotVisible ==
    [][(/\ requests' = requests + 1
        /\ resp.save \in SaveSteps
        /\ ~resp'.failed)
       => resp'.loaded = DocTasks(doc)]_vars

\* C3: a save that fails at any of its steps reports failure (the handler
\* answers 500) and leaves the backing document as it was before the call.
C3_FailedSaveLeavesDocument ==
    [][(requests' = requests + 1 /\ resp'.save \in SaveSteps)
       => (doc' = doc /\ resp'.status = 500)]_vars

\* a save of a changed collection failed at the rename, over a document that
\* holds tasks
C3_Witness ==
    /\ resp.save = "rename"
    /\ resp.op = "update"
    /\ resp.result # resp.loaded
    /\ doc.kind = "array"
    /\ doc.items # <<>>

\* C4: after a successful save the cache is empty, and the next load reads
\* storage and returns a collection equal to the one saved.
C4_LoadAfterSave ==
    [][(requests' = requests + 1 /\ resp.save = "ok")
       => (/\ cache_data = EmptyCache
           /\ resp'.read
           /\ (~resp'.raised => resp'.loaded = resp.result))]_vars

\* C5: an id that is in the backing document after a successful save is in
\* the backing document after every later request.
C5_IdsStayInDocument ==
    [][(resp.save = "ok") => (IdsOf(doc.items) \subseteq IdsOf(doc'.items))]_vars

\* C6: a load that reads an array document without an I/O error returns
\* exactly the records that pass Task validation, in document order.
C6_LoadKeepsValidRecords ==
    (resp.op = "get" /\ resp.read /\ ~resp.raised /\ doc.kind = "array")
        => resp.loaded = ValidTasks(doc.items)

NextDueConsistent(t) ==
    HasFrequency(t.frequency)
        => t.next_due_date = calculate_next_due_date(t.due_date, t.frequency)

\* C7: after every successful create, update, complete and import, every
\* task of the collection that has a frequency has next_due_date equal to
\* calculate_next_due_date(due_date, frequency).
C7_NextDueDateKept ==
    (resp.op \in {"create", "update", "complete", "import"} /\ resp.status = 200)
        => \A i \in 1..Len(resp.result) : NextDueConsistent(resp.result[i])

\* the successor new of the task orig, which the request left as done
Rescheduled(orig, done, new) ==
    /\ done.completed
    /\ ~new.completed
    /\ new.due_date = calculate_next_due_date(orig.due_date, orig.frequency)
    /\ Len(new.reminders) = Len(orig.reminders)
    /\ \A k \in 1..Len(orig.reminders) :
           /\ new.reminders[k].time_before = orig.reminders[k].time_before
           /\ new.reminders[k].message = orig.reminders[k].message
           /\ ~new.reminders[k].sent

CompletedRight(loaded, result, i, auto, ok) ==
    IF auto /\ HasFrequency(loaded[i].frequency)
    THEN ok => /\ Len(result) = Len(loaded) + 1
               /\ Rescheduled(loaded[i], result[i], result[Len(result)])
               /\ \A j \in 1..Len(loaded) : j # i => result[j] = loaded[j]
    ELSE Len(result) = Len(loaded)

\* C8: a successful complete with auto_reschedule on a task with a frequency
\* marks the task completed and adds exactly one task: not completed, due at
\* calculate_next_due_date(original due_date, frequency), with the original's
\* reminders in order, each with sent = false; any other complete adds none.
C8_CompleteReschedules ==
    (resp.op = "complete" /\ resp.status # 404)
        => CompletedRight(resp.loaded, resp.result,
                          IndexOf(resp.loaded, resp.task_id),
                          resp.auto, resp.status = 200)

\* a recurring task whose reminder was sent has been completed and rescheduled
C8_Witness ==
    /\ resp.op = "complete"
    /\ resp.status = 200
    /\ resp.auto
    /\ Len(resp.result) = Len(resp.loaded) + 1
    /\ \E k \in 1..Len(resp.result[IndexOf(resp.loaded, resp.task_id)].reminders) :
           resp.result[IndexOf(resp.loaded, resp.task_id)].reminders[k].sent

Sanitized(item) ==
    /\ TaskFieldsValid(item)
    /\ item.id # NoId
    /\ ~item.extra
    /\ item.description = sanitize_description(item.description)
    /\ item.category = sanitize_category(item.category)

SkippedAt(loaded, upload, i) ==
    /\ upload[i].kind = "obj"
    /\ upload[i].id # NoId
    /\ \/ upload[i].id \in IdsOf(loaded)
       \/ \E j \in 1..(i - 1) :
              upload[j].id = upload[i].id /\ TaskFieldsValid(upload[j])

InvalidAt(loaded, upload, i) ==
    ~SkippedAt(loaded, upload, i) /\ ~TaskFieldsValid(upload[i])

\* C10: an import of N entries answers success_count + skipped_count +
\* invalid_count = N, with skipped_count the entries whose id is the id of a
\* task in the collection, invalid_count the other entries that fail Task
\* validation, and success_count the entries added to the collection.
C10_ImportCounts ==
    (resp.op = "import" /\ resp.status = 200)
        => /\ resp.summary.skipped_count =
                  Cardinality({i \in 1..Len(resp.upload) :
                                   SkippedAt(resp.loaded, resp.upload, i)})
           /\ resp.summary.invalid_count =
                  Cardinality({i \in 1..Len(resp.upload) :
                                   InvalidAt(resp.loaded, resp.upload, i)})
           /\ resp.summary.success_count = Len(resp.result) - Len(resp.loaded)
           /\ resp.summary.success_count + resp.summary.skipped_count
                  + resp.summary.invalid_count = Len(resp.upload)

\* five entries, two with ids of existing tasks and one malformed: 2, 2, 1
C10_Witness ==
    /\ resp.op = "import"
    /\ resp.status = 200
    /\ Len(resp.upload) = 5
    /\ resp.summary = [success_count |-> 2, skipped_count |-> 2, invalid_count |-> 1]

\* what a load without I/O error returns in the current state
LoadNow == load_tasks(doc, cache_data, cache_expires_at, now, FALSE).tasks

\* C11: an import saves if and only if success_count > 0; one that adds
\* nothing leaves the backing document and what a later load returns as they
\* were; at most ErrorLimit messages are returned.
C11_ImportSavesIffSuccess ==
    [][(requests' = requests + 1 /\ resp'.op = "import")
       => /\ (resp'.save # "none") <=> (resp'.summary.success_count > 0)
          /\ (resp'.summary.success_count = 0) => (doc' = doc /\ LoadNow' = LoadNow)
          /\ Len(resp'.errors) <= ErrorLimit]_vars

\* an import of more than ErrorLimit entries, all invalid, over a document
\* that holds tasks
C11_Witness ==
    /\ resp.op = "import"
    /\ resp.summary.success_count = 0
    /\ resp.summary.invalid_count > ErrorLimit
    /\ Len(resp.errors) = ErrorLimit
    /\ resp.save = "none"
    /\ resp.loaded # <<>>

\* C12 as stated: over the three tasks, at every hour of the day and for
\* every hour at which the first task is due, status=overdue returns only
\* the yesterday task, status=completed only the completed task, and
\* dueDate=today exactly the two tasks due today.
C12_ThreeFiltersAnyHour ==
    (resp.op = "filter" /\ Len(resp.query.tasks) = 3)
        => /\ resp.query.status = "overdue" => resp.result = <<resp.query.tasks[2]>>
           /\ resp.query.status = "completed" => resp.result = <<resp.query.tasks[3]>>
           /\ resp.query.due_date = "today"
                  => resp.result = <<resp.query.tasks[1], resp.query.tasks[3]>>

\* C12: the same, with status=overdue returning only the yesterday task
\* while the first task's due instant is not before the current time, and
\* the first task with it once that instant has passed.
C12_ThreeFilters ==
    (resp.op = "filter" /\ Len(resp.query.tasks) = 3)
        => /\ resp.query.status = "overdue"
                  => resp.result =
                         IF DueInstant(resp.query.tasks[1]) < resp.query.clock
                         THEN <<resp.query.tasks[1], resp.query.tasks[2]>>
                         ELSE <<resp.query.tasks[2]>>
           /\ resp.query.status = "completed" => resp.result = <<resp.query.tasks[3]>>
           /\ resp.query.due_date = "today"
                  => resp.result = <<resp.query.tasks[1], resp.query.tasks[3]>>

\* status=overdue while the first task is due later today
C12_Witness ==
    /\ resp.op = "filter"
    /\ Len(resp.query.tasks) = 3
    /\ resp.query.status = "overdue"
    /\ DueInstant(resp.query.tasks[1]) > resp.query.clock
    /\ DueDay(resp.query.tasks[1]) = DateOf(resp.query.clock)
    /\ resp.result = <<resp.query.tasks[2]>>

\* a task meets the options that are given
Satisfies(t, q) ==
    /\ q.due_date = "today" => DueDay(t) = DateOf(q.clock)
    /\ q.due_date = "tomorrow" => DueDay(t) = DateOf(q.clock) + 1
    /\ q.status = "due" => (~t.completed /\ DueDay(t) <= DateOf(q.clock))
    /\ q.status = "overdue" => (~t.completed /\ DueInstant(t) < q.clock)
    /\ q.status = "completed" => t.completed
    /\ q.category.given => Lower(t.category) = Lower(q.category.value)

\* the first offset dropped, then at most limit kept (limit 0: no limit)
Page(matching, offset, limit) ==
    SubSeq(matching, offset + 1,
           IF limit = 0 THEN Len(matching) ELSE Min(Len(matching), offset + limit))

\* C19: filter_tasks returns the tasks that meet the dueDate, status and
\* category options that are given, in input order, without the first
\* offset of them and then at most limit of the rest.
C19_FilterResult ==
    (resp.op = "filter")
        => resp.result = Page(SelectSeq(resp.query.tasks,
                                        LAMBDA t : Satisfies(t, resp.query)),
                              resp.query.offset, resp.query.limit)

InList(list, t) == \E k \in 1..Len(list) : list[k] = t

AscendingDue(list) ==
    \A i, j \in 1..Len(list) : i < j => DueInstant(list[i]) <= DueInstant(list[j])

\* the lists of the summary s that hold the task t
ListsHolding(s, t) ==
    {n \in {"today_overdue", "today_uncompleted", "tomorrow_tasks"} : InList(s[n], t)}

\* the list the task belongs to, if any
ListsExpected(t, today) ==
    IF t.completed \/ DueDay(t) > today + 1 THEN {}
    ELSE IF DueDay(t) < today THEN {"today_overdue"}
    ELSE IF DueDay(t) = today THEN {"today_uncompleted"}
    ELSE {"tomorrow_tasks"}

\* C20: in the announcement summary every incomplete task due on or before
\* tomorrow is in exactly one list (today_overdue if due on a day before
\* today, today_uncompleted if due today, tomorrow_tasks if due tomorrow),
\* every other task is in none, and every list ascends by due_date.
C20_SummaryPartition ==
    (resp.op = "summary")
        => /\ \A i \in 1..Len(resp.tasks) :
                  ListsHolding(resp.summary, resp.tasks[i])
                      = ListsExpected(resp.tasks[i], DateOf(resp.clock))
           /\ AscendingDue(resp.summary.today_overdue)
           /\ AscendingDue(resp.summary.today_uncompleted)
           /\ AscendingDue(resp.summary.tomorrow_tasks)

WeekdayIndices(days_of_week) == SeqToSet(days_of_week) \subseteq 0..6

\* k is the least number of days in 1..7 after which the weekday is in days
LeastDaysAhead(current, days, k) ==
    /\ Weekday(current + 24 * k) \in days
    /\ \A j \in 1..(k - 1) : Weekday(current + 24 * j) \notin days

\* C13: for a weekly frequency with a non-empty days_of_week of weekday
\* indices, the next due date is current plus k days, k in 1..7 the smallest
\* number of days after which the weekday is in days_of_week, whatever the
\* interval.
C13_WeeklyNextDay ==
    (/\ resp.op = "next_due"
     /\ resp.frequency.type = "weekly"
     /\ resp.frequency.days_of_week # <<>>
     /\ WeekdayIndices(resp.frequency.days_of_week))
        => \E k \in 1..7 :
               /\ resp.result = resp.current + 24 * k
               /\ LeastDaysAhead(resp.current, SeqToSet(resp.frequency.days_of_week), k)

\* days_of_week = [2, 4] with interval 2 from a Thursday gives the Friday
C13_Witness ==
    /\ resp.op = "next_due"
    /\ resp.frequency.type = "weekly"
    /\ resp.frequency.days_of_week = <<2, 4>>
    /\ resp.frequency.interval = 2
    /\ Weekday(resp.current) = 3
    /\ resp.result = resp.current + 24

\* the month index (months since year 0) of an instant
MonthIndex(t) == ToCivil(DateOf(t)).year * 12 + (ToCivil(DateOf(t)).month - 1)

DayOfMonth(t) == ToCivil(DateOf(t)).day

DaysInMonthOf(t) == DaysInMonth(ToCivil(DateOf(t)).year, ToCivil(DateOf(t)).month)

\* C14: for a monthly frequency with day_of_month = D and interval = N the
\* next due date lies in the month N calendar months after the month of
\* current, on day min(D, number of days of that month).
C14_MonthlyDay ==
    (/\ resp.op = "next_due"
     /\ resp.frequency.type = "monthly"
     /\ resp.frequency.day_of_month # 0)
        => /\ MonthIndex(resp.result) = MonthIndex(resp.current) + resp.frequency.interval
           /\ DayOfMonth(resp.result)
                  = Min(resp.frequency.day_of_month, DaysInMonthOf(resp.result))

\* day_of_month = 31 on a target month of 30 days gives day 30
C14_Witness ==
    /\ resp.op = "next_due"
    /\ resp.frequency.type = "monthly"
    /\ resp.frequency.day_of_month = 31
    /\ DaysInMonthOf(resp.result) = 30
    /\ DayOfMonth(resp.result) = 30

\* the request was a create, an update or an import
Mutation == resp.op \in {"create", "update", "import"}

HasMarker(description) == \E k \in 1..Len(description) : description[k] = "<script"

\* C15: after a create, update or import request every task of the
\* collection has a non-empty description; a description of spaces alone is
\* rejected and never stored.
C15_DescriptionsNonEmpty ==
    Mutation => \A i \in 1..Len(resp.result) : resp.result[i].description # <<>>

\* C16: after a create, update or import request no task description of the
\* collection contains the marker "<script".
C16_NoScriptMarker ==
    Mutation => \A i \in 1..Len(resp.result) : ~HasMarker(resp.result[i].description)

\* C17: a save that fails at a step after the temporary file was created
\* (write, fsync, rename) leaves no temporary file behind.
C17_FailedSaveLeavesNoTempFile ==
    [][(requests' = requests + 1 /\ resp'.save \in {"write", "fsync", "rename"})
       => temp_files' = temp_files]_vars

\* the call is between taking file_lock and giving it back
InAccess(c) == calls[c].pc \notin {"idle", "waiting", "done"}

\* C18: no two storage accesses are in progress at once, and the document a
\* load has read is the complete content written by the last successful save,
\* or the initial content.
C18_StorageAccessSerialized ==
    /\ Cardinality({c \in Calls : InAccess(c)}) <= 1
    /\ \A c \in Calls : calls[c].did_read => calls[c].read = calls[c].expected

\* a load has read what a finished save wrote while another call waits for
\* the lock
C18_Witness ==
    \E c, d, e \in Calls :
        /\ At(c, "save", "done") /\ calls[c].tasks # <<>>
        /\ At(d, "load", "parsed")
        /\ calls[d].read = resp.committed /\ calls[d].read.kind = "array"
        /\ calls[d].read.items # <<>>
        /\ doc # ArrayDoc(<<ItemA, ItemR>>)
        /\ calls[e].pc = "waiting"

\* the sentences of the given kind in a text
OfKind(text, kind) == SelectSeq(text, LAMBDA p : p.kind = kind)

\* the incomplete tasks of the collection that are due today
DueToday(tasks, clock) ==
    SelectSeq(tasks, LAMBDA t : ~t.completed /\ DueDay(t) = DateOf(clock))

\* how many tasks due today are due before t
DueBefore(tasks, clock, t) ==
    Cardinality({i \in 1..Len(DueToday(tasks, clock)) :
                     DueInstant(DueToday(tasks, clock)[i]) < DueInstant(t)})

\* the sentences quote the min(3, n) earliest of the tasks due today, in
\* ascending due order
QuotesEarliest(items, tasks, clock) ==
    /\ Len(items) = Min(3, Len(DueToday(tasks, clock)))
    /\ \A i \in 1..Len(items) :
           \E j \in 1..Len(DueToday(tasks, clock)) :
               /\ DueBefore(tasks, clock, DueToday(tasks, clock)[j]) = i - 1
               /\ items[i].description = DueToday(tasks, clock)[j].description

\* the morning text for n tasks due today and m overdue tasks
MorningRight(text, n, m, tasks, clock) ==
    /\ OfKind(text, "overdue")
           = IF m > 0 THEN <<Sentence("overdue", m, IF m > 1 THEN "tasks" ELSE "task", <<>>)>>
             ELSE <<>>
    /\ OfKind(text, "due_today")
           = IF n > 0 THEN <<Sentence("due_today", n, IF n > 1 THEN "tasks" ELSE "task", <<>>)>>
             ELSE <<>>
    /\ QuotesEarliest(OfKind(text, "item"), tasks, clock)
    /\ OfKind(text, "more")
           = IF n > 3
             THEN <<Sentence("more", n - 3, IF n - 3 > 1 THEN "tasks" ELSE "task", <<>>)>>
             ELSE <<>>
    /\ (OfKind(text, "great_job") # <<>>) <=> (n = 0 /\ m = 0)
    /\ (n = 0 /\ m = 0) => Len(text) = 1

\* C21: the morning text states the overdue count iff there are overdue
\* tasks, states the due-today count iff tasks are due today and then quotes
\* the min(3, n) earliest of them in due order, has an "and n-3 more" part iff
\* n > 3, is the fixed message iff both counts are 0, and gives the noun its
\* "s" exactly when the count is above 1.
C21_MorningText ==
    (resp.op = "summary")
        => MorningRight(resp.text.morning, Len(resp.summary.today_uncompleted),
                        Len(resp.summary.today_overdue), resp.tasks, resp.clock)

\* five tasks due today and one overdue: three quoted, "and 2 more tasks",
\* "1 overdue task"
C21_Witness ==
    /\ resp.op = "summary"
    /\ Len(resp.summary.today_uncompleted) = 5
    /\ Len(resp.summary.today_overdue) = 1
    /\ Len(resp.text.morning) = 6
    /\ resp.text.morning[1].noun = "task"
    /\ resp.text.morning[3].description = <<"e">>
    /\ resp.text.morning[6] = Sentence("more", 2, "tasks", <<>>)

\* C22: for every accepted Frequency and every current due date the next due
\* date is strictly later than the current one.
C22_NextDueLater ==
    (resp.op = "next_due" /\ FrequencyValid(resp.frequency))
        => resp.result > resp.current

\* no two entries of the sequence have the same id
UniqueIds(s) ==
    \A i, j \in 1..Len(s) : (i < j /\ s[i].id # NoId) => s[i].id # s[j].id

\* C23: task ids are unique in the collection and in the backing document
\* after every create, complete and import request.
C23_UniqueIds ==
    /\ UniqueIds(doc.items)
    /\ (resp.op \in {"create", "complete", "import"}) => UniqueIds(resp.result)

\* every task the request found completed is still completed, with
\* completed_at set, in the collection the request leaves
StaysCompleted ==
    \A i \in 1..Len(resp.loaded) :
        resp.loaded[i].completed
            => /\ i <= Len(resp.result)
               /\ resp.result[i].id = resp.loaded[i].id
               /\ resp.result[i].completed
               /\ resp.result[i].completed_at # -1

\* the complete request found its task completed already
CompletedAgain ==
    /\ resp.op = "complete"
    /\ IndexOf(resp.loaded, resp.task_id) # 0
    /\ resp.loaded[IndexOf(resp.loaded, resp.task_id)].completed

\* C24: a completed task stays completed with completed_at set under every
\* later request, and a complete request on a task that is completed already
\* adds no further successor task.
C24_CompletionMonotonic ==
    /\ StaysCompleted
    /\ CompletedAgain => Len(resp.result) = Len(resp.loaded)

====
